---- MODULE Spec2Model ----
(***************************************************************************)
(* The create-image and run commands of newt (newt/cli): the key-argument  *)
(* resolver parseKeyArgs, the timestamp-derived image version, and the     *)
(* stage sequencing of createImageRunCmd and runRunCmd.                    *)
(*                                                                         *)
(* A command-line token is a sequence of one-character strings, so that    *)
(* the parsers (strconv.ParseUint, image.ParseVersion) are computed on the *)
(* characters and not assumed.                                             *)
(***************************************************************************)
EXTENDS Integers, Sequences, FiniteSets, TLC

\* Largest number of trailing key arguments (args[2:]) explored.
MaxKeyArgs == 3

None == "none"

-----------------------------------------------------------------------------
(* Tokens *)

Timestamp == <<"t", "i", "m", "e", "s", "t", "a", "m", "p">>

TargetNames == { <<"t", "1">> }

\* "timestamp", a well-formed dotted version, a malformed one.
VersionTokens == { Timestamp, <<"1", ".", "3">>, <<"1", ".", "x">> }

\* Two key filenames, and three tokens that read as numbers: 7 with a
\* leading zero, the largest 8-bit value, the first value out of range.
KeyTokens == { <<"k">>, <<"j">>, <<"0", "7">>, <<"2", "5", "5">>,
               <<"2", "5", "6">> }

\* What the operator types at the version prompt: nothing, a version, junk.
ConsoleInputs == { <<>>, <<"2", ".", "0">>, <<"x">> }

RECURSIVE SeqsUpTo(_, _)
SeqsUpTo(S, n) ==
    IF n = 0 THEN { <<>> }
    ELSE LET shorter == SeqsUpTo(S, n - 1)
         IN  shorter \cup { Append(s, x) : s \in shorter, x \in S }

\* The argument lists explored: every prefix of
\* <target> <version> [key ...], the shapes both commands document.
ArgLists ==
    { <<>> } \cup { <<t>> : t \in TargetNames }
    \cup { <<t, v>> \o ks : t \in TargetNames, v \in VersionTokens,
                            ks \in SeqsUpTo(KeyTokens, MaxKeyArgs) }

-----------------------------------------------------------------------------
(* strconv.ParseUint(s, 10, bitSize) *)

Digits == { "0", "1", "2", "3", "4", "5", "6", "7", "8", "9" }

DigitVal(c) ==
    CASE c = "0" -> 0 [] c = "1" -> 1 [] c = "2" -> 2 [] c = "3" -> 3
      [] c = "4" -> 4 [] c = "5" -> 5 [] c = "6" -> 6 [] c = "7" -> 7
      [] c = "8" -> 8 [] c = "9" -> 9

\* Digits are accumulated left to right; a non-digit is a syntax error, a
\* value above 2^bitSize - 1 a range error. The empty string is an error.
RECURSIVE ParseDigits(_, _, _, _)
ParseDigits(s, i, n, maxVal) ==
    IF i > Len(s) THEN [ok |-> TRUE, val |-> n]
    ELSE IF s[i] \notin Digits THEN [ok |-> FALSE, val |-> 0]
    ELSE LET n1 == n * 10 + DigitVal(s[i])
         IN  IF n1 > maxVal THEN [ok |-> FALSE, val |-> maxVal]
             ELSE ParseDigits(s, i + 1, n1, maxVal)

\* The largest value of bitSize bits. The model's integers end at 2^31 - 1:
\* a 32-bit component is explored up to there.
MaxUint(bitSize) == IF bitSize < 31 THEN 2 ^ bitSize - 1 ELSE 2147483647

ParseUint(s, bitSize) ==
    IF Len(s) = 0 THEN [ok |-> FALSE, val |-> 0]
    ELSE ParseDigits(s, 1, 0, MaxUint(bitSize))

-----------------------------------------------------------------------------
(* image.ParseVersion *)

NoVersion == [Major |-> 0, Minor |-> 0, Rev |-> 0, BuildNum |-> 0]

\* strings.Split(s, "."): the components between the dots.
RECURSIVE SplitDots(_, _, _)
SplitDots(s, i, cur) ==
    IF i > Len(s) THEN << cur >>
    ELSE IF s[i] = "." THEN << cur >> \o SplitDots(s, i + 1, <<>>)
    ELSE SplitDots(s, i + 1, Append(cur, s[i]))

\* major[.minor[.rev[.buildnum]]], each component an unsigned decimal of
\* 8, 8, 16 and 32 bits; absent trailing components are 0.
ParseVersion(tok) ==
    LET comps == SplitDots(tok, 1, <<>>)
        part(i, bits) == IF Len(comps) >= i THEN ParseUint(comps[i], bits)
                         ELSE [ok |-> TRUE, val |-> 0]
        ma == part(1, 8)
        mi == part(2, 8)
        rv == part(3, 16)
        bn == part(4, 32)
    IN  IF ma.ok /\ mi.ok /\ rv.ok /\ bn.ok
        THEN [ok |-> TRUE,
              ver |-> [Major |-> ma.val, Minor |-> mi.val,
                       Rev |-> rv.val, BuildNum |-> bn.val]]
        ELSE [ok |-> FALSE, ver |-> NoVersion]

-----------------------------------------------------------------------------
(* sec.ReadPrivSignKeys and parseKeyArgs *)

\* The private signing key read from file f.
Key(f) == [file |-> f]

\* Reads every file of the list; the first unreadable or malformed file
\* fails the whole call and no key is returned. readable is the set of
\* filenames that hold a well-formed private key.
ReadPrivSignKeys(filenames, readable) ==
    IF \A i \in 1..Len(filenames) : filenames[i] \in readable
    THEN [keys |-> [i \in 1..Len(filenames) |-> Key(filenames[i])],
          err |-> None]
    ELSE [keys |-> <<>>, err |-> "keyload"]

\* For two or more arguments under the legacy format the key ID is read with
\* 16 bits and cut to 8 afterwards, so that 256 is accepted as key ID 0.
SelectKeyArgsWideId(args, v1) ==
    IF Len(args) = 1
    THEN [err |-> None, keyId |-> 0, keyFilenames |-> << args[1] >>]
    ELSE IF v1
    THEN LET keyIdUint == ParseUint(args[2], 16)
         IN  IF ~keyIdUint.ok
             THEN [err |-> "keyid", keyId |-> 0, keyFilenames |-> <<>>]
             ELSE [err |-> None, keyId |-> keyIdUint.val % 256,
                   keyFilenames |-> SubSeq(args, 1, 1)]
    ELSE [err |-> None, keyId |-> 0, keyFilenames |-> args]

\* The format test is dropped: two or more arguments are always read as
\* <key> <key-id>.
SelectKeyArgsAlwaysV1(args, v1) ==
    IF Len(args) = 1
    THEN [err |-> None, keyId |-> 0, keyFilenames |-> << args[1] >>]
    ELSE LET keyIdUint == ParseUint(args[2], 8)
         IN  IF ~keyIdUint.ok
             THEN [err |-> "keyid", keyId |-> 0, keyFilenames |-> <<>>]
             ELSE [err |-> None, keyId |-> keyIdUint.val,
                   keyFilenames |-> SubSeq(args, 1, 1)]

\* Lines 52-67 of parseKeyArgs, for a non-empty list: which arguments are key
\* filenames and what the key ID is. Go's args[0], args[1] are args[1],
\* args[2] here.
SelectKeyArgs(args, v1) ==
    IF Len(args) = 1
    THEN [err |-> None, keyId |-> 0, keyFilenames |-> << args[1] >>]
    ELSE IF v1
    THEN LET keyIdUint == ParseUint(args[2], 8)
         IN  IF ~keyIdUint.ok
             THEN [err |-> "keyid", keyId |-> 0, keyFilenames |-> <<>>]
             ELSE [err |-> None, keyId |-> keyIdUint.val,
                   keyFilenames |-> SubSeq(args, 1, 1)]
    ELSE [err |-> None, keyId |-> 0, keyFilenames |-> args]

\* The early return for an empty list is missing: the empty list falls
\* through to the last branch and is handed to the key reader.
parseKeyArgsNoEarlyReturn(args, v1, readable) ==
    LET sel == IF Len(args) = 0
               THEN [err |-> None, keyId |-> 0, keyFilenames |-> args]
               ELSE SelectKeyArgs(args, v1)
    IN  IF sel.err # None
        THEN [keys |-> <<>>, keyId |-> 0, err |-> sel.err, read |-> <<>>]
        ELSE LET r == ReadPrivSignKeys(sel.keyFilenames, readable)
             IN  IF r.err # None
                 THEN [keys |-> <<>>, keyId |-> 0, err |-> r.err,
                       read |-> << sel.keyFilenames >>]
                 ELSE [keys |-> r.keys, keyId |-> sel.keyId, err |-> None,
                       read |-> << sel.keyFilenames >>]

\* When the key reader fails, the key ID already chosen is returned along
\* with the error.
parseKeyArgsPartialResult(args, v1, readable) ==
    IF Len(args) = 0
    THEN [keys |-> <<>>, keyId |-> 0, err |-> None, read |-> <<>>]
    ELSE LET sel == SelectKeyArgs(args, v1)
         IN  IF sel.err # None
             THEN [keys |-> <<>>, keyId |-> 0, err |-> sel.err,
                   read |-> <<>>]
             ELSE LET r == ReadPrivSignKeys(sel.keyFilenames, readable)
                  IN  [keys |-> r.keys, keyId |-> sel.keyId, err |-> r.err,
                       read |-> << sel.keyFilenames >>]

\* parseKeyArgs(args) with useV1 = v1: (keys, key ID, error), and in read
\* the filename lists handed to ReadPrivSignKeys, one per call (empty when
\* it is not called). A nil key slice is the empty sequence.
parseKeyArgs(args, v1, readable) ==
    IF Len(args) = 0
    THEN [keys |-> <<>>, keyId |-> 0, err |-> None, read |-> <<>>]
    ELSE LET sel == SelectKeyArgs(args, v1)
         IN  IF sel.err # None
             THEN [keys |-> <<>>, keyId |-> 0, err |-> sel.err,
                   read |-> <<>>]
             ELSE LET r == ReadPrivSignKeys(sel.keyFilenames, readable)
                  IN  IF r.err # None
                      THEN [keys |-> <<>>, keyId |-> 0, err |-> r.err,
                            read |-> << sel.keyFilenames >>]
                      ELSE [keys |-> r.keys, keyId |-> sel.keyId,
                            err |-> None, read |-> << sel.keyFilenames >>]

\* The files among those handed to the key reader (read, one list per call)
\* that hold no well-formed key.
Unreadable(read, readable) ==
    { f \in KeyTokens :
        /\ f \notin readable
        /\ \E c \in 1..Len(read) : \E i \in 1..Len(read[c]) : read[c][i] = f }

-----------------------------------------------------------------------------
(* The version derived from the build artifact's modification time *)

\* Go's integer remainder: the result has the sign of the dividend.
GoRem(a, b) == IF a >= 0 THEN a % b ELSE -((-a) % b)

\* Conversion of an int to an unsigned integer of w bits. For 32 bits the
\* values converted here lie in 0 .. 2^31 - 1, which the conversion keeps.
ToUint(x, w) == IF w < 31 THEN x % (2 ^ w) ELSE x

\* The hour is weighted 1000 instead of 10000.
TimestampVersionHour1000(mt) ==
    [Major    |-> ToUint(GoRem(mt.year, 1000), 8),
     Minor    |-> ToUint(mt.month, 8),
     Rev      |-> ToUint(mt.day, 16),
     BuildNum |-> ToUint(mt.hour * 1000 + mt.minute * 100 + mt.second, 32)]

\* The year is reduced modulo 100 instead of 1000.
TimestampVersionMod100(mt) ==
    [Major    |-> ToUint(GoRem(mt.year, 100), 8),
     Minor    |-> ToUint(mt.month, 8),
     Rev      |-> ToUint(mt.day, 16),
     BuildNum |-> ToUint(mt.hour * 10000 + mt.minute * 100 + mt.second, 32)]

TimestampVersion(mt) ==
    [Major    |-> ToUint(GoRem(mt.year, 1000), 8),
     Minor    |-> ToUint(mt.month, 8),
     Rev      |-> ToUint(mt.day, 16),
     BuildNum |-> ToUint(mt.hour * 10000 + mt.minute * 100 + mt.second, 32)]

-----------------------------------------------------------------------------
(* State *)

VARIABLES
    cmd,            \* the command run: "create-image" or "run"
    args,           \* its positional arguments
    useV1, useV2,   \* the format flags (package variables)
    given,          \* the flag values as the command line set them
    opts,           \* the other flag variables, as one record
    pc,             \* the position in the command function
    log,            \* the stages entered so far, in order
    failed,         \* the stage whose failure ended the invocation
    exitCode,       \* -1 while running, then the process exit status
    testPkg,        \* b.GetTestPkg() != nil
    settings,       \* the configuration settings read by run
    prompted,       \* whether the version prompt was printed
    typed,          \* what was typed at the prompt
    verAsTimestamp, \* create-image: the version token was "timestamp"
    verStr,         \* run: the version string
    ver,            \* the image version
    parsed,         \* the tokens handed to image.ParseVersion, in order
    mtime,          \* the modification time os.Stat returned
    keys,           \* the signing keys kept by the command
    keyCall,        \* the argument lists handed to parseKeyArgs, in order
    keyRes,         \* what parseKeyArgs returned
    unreadable,     \* the files handed to the key reader that did not load
    produced        \* the calls made to the image producer, in order

vars == << cmd, args, useV1, useV2, given, opts, pc, log, failed, exitCode,
           testPkg, settings, prompted, typed, verAsTimestamp, verStr, ver,
           parsed, mtime, keys, keyCall, keyRes, unreadable, produced >>

input  == << cmd, args, opts, given >>
target == << testPkg, settings, prompted, typed >>
verVar == << verAsTimestamp, verStr, ver, parsed, mtime >>
keyVar == << keys, keyCall, keyRes, unreadable >>

\* The flag defaults registered by AddImageCommands and AddRunCommands.
DefaultOpts ==
    [encKeyFilename |-> "", encKeyIndex |-> -1, hdrPad |-> 0, imagePad |-> 0,
     sections |-> "", useLegacyTLV |-> FALSE, owSrcFilename |-> ""]

\* run registers neither -L nor -W: there the two keep their zero values.
OptChoices(c) ==
    { DefaultOpts,
      [encKeyFilename |-> "aes_key", encKeyIndex |-> 3, hdrPad |-> 32,
       imagePad |-> 64, sections |-> "a,b",
       useLegacyTLV |-> (c = "create-image"),
       owSrcFilename |-> IF c = "create-image" THEN "ow.bin" ELSE ""] }

NoMTime == [year |-> 0, month |-> 0, day |-> 0,
            hour |-> 0, minute |-> 0, second |-> 0]

\* Modification times the build artifact may carry.
ModTimes ==
    { [year |-> 2024, month |-> 3, day |-> 7,
       hour |-> 14, minute |-> 5, second |-> 9],
      [year |-> 2299, month |-> 12, day |-> 31,
       hour |-> 23, minute |-> 59, second |-> 59],
      [year |-> 1970, month |-> 1, day |-> 1,
       hour |-> 0, minute |-> 0, second |-> 0] }

NoKeyRes == [keys |-> <<>>, keyId |-> 0, err |-> None, read |-> <<>>]

NoSettings == [BOOT_LOADER |-> FALSE, BSP_SIMULATED |-> FALSE]

\* The state when cobra calls the command function: the flags are parsed,
\* nothing has run.
Init ==
    /\ cmd \in { "create-image", "run" }
    /\ args \in ArgLists
    /\ useV1 \in BOOLEAN
    /\ useV2 \in BOOLEAN
    /\ opts \in OptChoices(cmd)
    /\ given = [useV1 |-> useV1, useV2 |-> useV2, opts |-> opts]
    /\ pc = "start"
    /\ log = <<>>
    /\ failed = None
    /\ exitCode = -1
    /\ testPkg = FALSE
    /\ settings = NoSettings
    /\ prompted = FALSE
    /\ typed = <<>>
    /\ verAsTimestamp = FALSE
    /\ verStr = <<>>
    /\ ver = NoVersion
    /\ parsed = <<>>
    /\ mtime = NoMTime
    /\ keys = <<>>
    /\ keyCall = <<>>
    /\ keyRes = NoKeyRes
    /\ unreadable = {}
    /\ produced = <<>>

\* NewtUsage(cmd, err): prints the error (and the usage) and ends the
\* process with status 1; stage names the stage that failed.
NewtUsage(stage) ==
    /\ pc' = "exit"
    /\ failed' = stage
    /\ exitCode' = 1

\* Control moves on to position l.
Goto(l) ==
    /\ pc' = l
    /\ UNCHANGED << failed, exitCode >>

\* The command function returns: cobra's Execute returns nil and main ends
\* with status 0.
Return ==
    /\ pc' = "exit"
    /\ exitCode' = 0
    /\ UNCHANGED failed

Enter(stage) == log' = Append(log, stage)

\* Go's args[2:], for len(args) >= 2.
Tail2(a) == SubSeq(a, 3, Len(a))

-----------------------------------------------------------------------------
(* createImageRunCmd *)

\* len(args) < 2
CreateImageCheckArgs ==
    /\ cmd = "create-image" /\ pc = "start"
    /\ Enter("args")
    /\ IF Len(args) < 2 THEN NewtUsage("args") ELSE Goto("ci_flags")
    /\ UNCHANGED << input, useV1, useV2, target, verVar, keyVar, produced >>

\* useV2 is not defaulted when neither flag is given.
CreateImageValidateFlagsNoDefault ==
    /\ cmd = "create-image" /\ pc = "ci_flags"
    /\ Enter("flags")
    /\ IF useV1 /\ useV2 THEN NewtUsage("flags") ELSE Goto("ci_target")
    /\ UNCHANGED << input, useV1, useV2, target, verVar, keyVar, produced >>

\* useV1 && useV2; !useV1 sets useV2
CreateImageValidateFlags ==
    /\ cmd = "create-image" /\ pc = "ci_flags"
    /\ Enter("flags")
    /\ IF useV1 /\ useV2
       THEN NewtUsage("flags") /\ UNCHANGED useV2
       ELSE Goto("ci_target") /\ useV2' = IF ~useV1 THEN TRUE ELSE useV2
    /\ UNCHANGED << input, useV1, target, verVar, keyVar, produced >>

\* TryGetProject, ResolveTarget(args[0])
CreateImageResolveTarget ==
    /\ cmd = "create-image" /\ pc = "ci_target"
    /\ Enter("ResolveTarget")
    /\ \E found \in BOOLEAN :
         IF ~found THEN NewtUsage("target") ELSE Goto("ci_version")
    /\ UNCHANGED << input, useV1, useV2, target, verVar, keyVar, produced >>

\* args[1] == "timestamp", else image.ParseVersion(args[1])
CreateImageParseVersion ==
    /\ cmd = "create-image" /\ pc = "ci_version"
    /\ IF args[2] = Timestamp
       THEN /\ verAsTimestamp' = TRUE
            /\ Goto("ci_builder")
            /\ UNCHANGED << log, ver, parsed >>
       ELSE /\ verAsTimestamp' = FALSE
            /\ Enter("ParseVersion")
            /\ parsed' = Append(parsed, args[2])
            /\ LET r == ParseVersion(args[2])
               IN  /\ ver' = r.ver
                   /\ IF ~r.ok THEN NewtUsage("version")
                      ELSE Goto("ci_builder")
    /\ UNCHANGED << input, useV1, useV2, target, verStr, mtime, keyVar,
                    produced >>

\* builder.NewTargetBuilder(t)
CreateImageNewTargetBuilder ==
    /\ cmd = "create-image" /\ pc = "ci_builder"
    /\ Enter("NewTargetBuilder")
    /\ \E ok \in BOOLEAN :
         IF ~ok THEN NewtUsage("builder") ELSE Goto("ci_keys")
    /\ UNCHANGED << input, useV1, useV2, target, verVar, keyVar, produced >>

\* keys, _, err := parseKeyArgs(args[2:]): the key ID is not kept.
CreateImageParseKeyArgs ==
    /\ cmd = "create-image" /\ pc = "ci_keys"
    /\ Enter("parseKeyArgs")
    /\ keyCall' = Append(keyCall, Tail2(args))
    /\ \E readable \in SUBSET KeyTokens :
         LET r == parseKeyArgs(Tail2(args), useV1, readable)
         IN  /\ keyRes' = r
             /\ keys' = r.keys
             /\ unreadable' = Unreadable(r.read, readable)
             /\ IF r.err # None THEN NewtUsage(r.err) ELSE Goto("ci_build")
    /\ UNCHANGED << input, useV1, useV2, target, verVar, produced >>

\* A failed build does not end the command.
CreateImageBuildIgnoreError ==
    /\ cmd = "create-image" /\ pc = "ci_build"
    /\ Enter("Build")
    /\ \E ok \in BOOLEAN :
         /\ pc' = IF verAsTimestamp THEN "ci_stat" ELSE "ci_produce"
         /\ failed' = IF ok THEN failed ELSE "build"
         /\ UNCHANGED exitCode
    /\ UNCHANGED << input, useV1, useV2, target, verVar, keyVar, produced >>

\* The modification time is read whatever the version token was.
CreateImageBuildAlwaysStat ==
    /\ cmd = "create-image" /\ pc = "ci_build"
    /\ Enter("Build")
    /\ \E ok \in BOOLEAN :
         IF ~ok THEN NewtUsage("build") ELSE Goto("ci_stat")
    /\ UNCHANGED << input, useV1, useV2, target, verVar, keyVar, produced >>

\* b.Build()
CreateImageBuild ==
    /\ cmd = "create-image" /\ pc = "ci_build"
    /\ Enter("Build")
    /\ \E ok \in BOOLEAN :
         IF ~ok THEN NewtUsage("build")
         ELSE Goto(IF verAsTimestamp THEN "ci_stat" ELSE "ci_produce")
    /\ UNCHANGED << input, useV1, useV2, target, verVar, keyVar, produced >>

\* verAsTimestamp: os.Stat of the built ELF, then the version fields
CreateImageTimestamp ==
    /\ cmd = "create-image" /\ pc = "ci_stat"
    /\ Enter("Stat")
    /\ \E ok \in BOOLEAN :
         IF ~ok
         THEN NewtUsage("stat") /\ UNCHANGED << mtime, ver >>
         ELSE \E mt \in ModTimes :
                /\ mtime' = mt
                /\ ver' = TimestampVersion(mt)
                /\ Goto("ci_produce")
    /\ UNCHANGED << input, useV1, useV2, target, verAsTimestamp, verStr,
                    parsed, keyVar, produced >>

\* The arguments of imgprod.ProduceAllV1 and imgprod.ProduceAll, as the two
\* commands pass them; owSrc is the last argument of ProduceAll.
ProduceCall(owSrc) ==
    IF useV1
    THEN [fn |-> "ProduceAllV1", ver |-> ver, keys |-> keys,
          encKeyFilename |-> opts.encKeyFilename,
          encKeyIndex |-> opts.encKeyIndex, hdrPad |-> opts.hdrPad,
          imagePad |-> opts.imagePad, sections |-> opts.sections,
          useLegacyTLV |-> opts.useLegacyTLV]
    ELSE [fn |-> "ProduceAll", ver |-> ver, keys |-> keys,
          encKeyFilename |-> opts.encKeyFilename,
          encKeyIndex |-> opts.encKeyIndex, hdrPad |-> opts.hdrPad,
          imagePad |-> opts.imagePad, sections |-> opts.sections,
          useLegacyTLV |-> opts.useLegacyTLV, owSrcFilename |-> owSrc]

\* The overwrite source, which the legacy producer does not take, is cleared
\* under the legacy format.
CreateImageProduceClearsOwSrc ==
    /\ cmd = "create-image" /\ pc = "ci_produce"
    /\ Enter("Produce")
    /\ produced' = Append(produced, ProduceCall(opts.owSrcFilename))
    /\ opts' = IF useV1 THEN [opts EXCEPT !.owSrcFilename = ""] ELSE opts
    /\ \E ok \in BOOLEAN :
         IF ~ok THEN NewtUsage("produce") ELSE Return
    /\ UNCHANGED << cmd, args, given, useV1, useV2, target, verVar, keyVar >>

\* imgprod.ProduceAllV1 / imgprod.ProduceAll, then the function ends
CreateImageProduce ==
    /\ cmd = "create-image" /\ pc = "ci_produce"
    /\ Enter("Produce")
    /\ produced' = Append(produced, ProduceCall(opts.owSrcFilename))
    /\ \E ok \in BOOLEAN :
         IF ~ok THEN NewtUsage("produce") ELSE Return
    /\ UNCHANGED << input, useV1, useV2, target, verVar, keyVar >>

CreateImage ==
    \/ CreateImageCheckArgs
    \/ CreateImageValidateFlags
    \/ CreateImageResolveTarget
    \/ CreateImageParseVersion
    \/ CreateImageNewTargetBuilder
    \/ CreateImageParseKeyArgs
    \/ CreateImageBuild
    \/ CreateImageTimestamp
    \/ CreateImageProduce

-----------------------------------------------------------------------------
(* runRunCmd *)

\* fmt.Scanf("%s\n", &verStr): a typed word replaces the value, an empty
\* line leaves it as it was.
Scanf(line, cur) == IF line = <<>> THEN cur ELSE line

\* len(args) < 1
RunCheckArgs ==
    /\ cmd = "run" /\ pc = "start"
    /\ Enter("args")
    /\ IF Len(args) < 1 THEN NewtUsage("args") ELSE Goto("run_flags")
    /\ UNCHANGED << input, useV1, useV2, target, verVar, keyVar, produced >>

\* The test for both flags is missing.
RunValidateFlagsNoCheck ==
    /\ cmd = "run" /\ pc = "run_flags"
    /\ Enter("flags")
    /\ Goto("run_target")
    /\ useV2' = IF ~useV1 THEN TRUE ELSE useV2
    /\ UNCHANGED << input, useV1, target, verVar, keyVar, produced >>

\* useV1 && useV2; !useV1 sets useV2
RunValidateFlags ==
    /\ cmd = "run" /\ pc = "run_flags"
    /\ Enter("flags")
    /\ IF useV1 /\ useV2
       THEN NewtUsage("flags") /\ UNCHANGED useV2
       ELSE Goto("run_target") /\ useV2' = IF ~useV1 THEN TRUE ELSE useV2
    /\ UNCHANGED << input, useV1, target, verVar, keyVar, produced >>

\* TryGetProject, TargetBuilderForTargetOrUnittest(args[0]), b.GetTestPkg()
RunTargetBuilder ==
    /\ cmd = "run" /\ pc = "run_target"
    /\ Enter("TargetBuilderForTargetOrUnittest")
    /\ \E ok \in BOOLEAN, tp \in BOOLEAN :
         IF ~ok
         THEN NewtUsage("target") /\ UNCHANGED testPkg
         ELSE Goto("run_branch") /\ testPkg' = tp
    /\ UNCHANGED << input, useV1, useV2, settings, prompted, typed, verVar,
                    keyVar, produced >>

\* testPkg != nil: b.InjectSetting, b.SelfTestCreateExe()
RunSelfTestCreateExe ==
    /\ cmd = "run" /\ pc = "run_branch" /\ testPkg
    /\ log' = log \o << "InjectSetting", "SelfTestCreateExe" >>
    /\ \E ok \in BOOLEAN :
         IF ~ok THEN NewtUsage("selftest_exe") ELSE Goto("run_selftest")
    /\ UNCHANGED << input, useV1, useV2, target, verVar, keyVar, produced >>

\* The else is missing: after the self-test the regular stages follow.
RunSelfTestDebugFallsThrough ==
    /\ cmd = "run" /\ pc = "run_selftest"
    /\ Enter("SelfTestDebug")
    /\ \E ok \in BOOLEAN :
         IF ~ok THEN NewtUsage("selftest_debug") ELSE Goto("run_build")
    /\ UNCHANGED << input, useV1, useV2, target, verVar, keyVar, produced >>

\* b.SelfTestDebug(), then the function ends
RunSelfTestDebug ==
    /\ cmd = "run" /\ pc = "run_selftest"
    /\ Enter("SelfTestDebug")
    /\ \E ok \in BOOLEAN :
         IF ~ok THEN NewtUsage("selftest_debug") ELSE Return
    /\ UNCHANGED << input, useV1, useV2, target, verVar, keyVar, produced >>

\* len(args) > 1: verStr = args[1]
RunVersionFromArgs ==
    /\ cmd = "run" /\ pc = "run_branch" /\ ~testPkg
    /\ Len(args) > 1
    /\ verStr' = args[2]
    /\ Goto("run_build")
    /\ UNCHANGED << input, useV1, useV2, log, target, verAsTimestamp, ver,
                    parsed, mtime, keyVar, produced >>

\* The prompt is printed unless both settings are true.
RunVersionFromConfigOr ==
    /\ cmd = "run" /\ pc = "run_branch" /\ ~testPkg
    /\ Len(args) <= 1
    /\ \E ok \in BOOLEAN :
         IF ~ok
         THEN /\ NewtUsage("resolve")
              /\ Enter("Resolve")
              /\ UNCHANGED << settings, prompted, typed, verStr >>
         ELSE \E st \in [BOOT_LOADER : BOOLEAN, BSP_SIMULATED : BOOLEAN] :
                /\ settings' = st
                /\ IF ~st.BOOT_LOADER \/ ~st.BSP_SIMULATED
                   THEN /\ log' = log \o << "Resolve", "Prompt" >>
                        /\ prompted' = TRUE
                        /\ \E line \in ConsoleInputs :
                             /\ typed' = line
                             /\ verStr' = Scanf(line, << "0" >>)
                   ELSE /\ Enter("Resolve")
                        /\ UNCHANGED << prompted, typed, verStr >>
                /\ Goto("run_build")
    /\ UNCHANGED << input, useV1, useV2, testPkg, verAsTimestamp, ver, parsed,
                    mtime, keyVar, produced >>

\* No version argument: b.Resolve(), and for a target that is neither a
\* bootloader nor simulated the prompt, with "0" as the default
RunVersionFromConfig ==
    /\ cmd = "run" /\ pc = "run_branch" /\ ~testPkg
    /\ Len(args) <= 1
    /\ \E ok \in BOOLEAN :
         IF ~ok
         THEN /\ NewtUsage("resolve")
              /\ Enter("Resolve")
              /\ UNCHANGED << settings, prompted, typed, verStr >>
         ELSE \E st \in [BOOT_LOADER : BOOLEAN, BSP_SIMULATED : BOOLEAN] :
                /\ settings' = st
                /\ IF ~st.BOOT_LOADER /\ ~st.BSP_SIMULATED
                   THEN /\ log' = log \o << "Resolve", "Prompt" >>
                        /\ prompted' = TRUE
                        /\ \E line \in ConsoleInputs :
                             /\ typed' = line
                             /\ verStr' = Scanf(line, << "0" >>)
                   ELSE /\ Enter("Resolve")
                        /\ UNCHANGED << prompted, typed, verStr >>
                /\ Goto("run_build")
    /\ UNCHANGED << input, useV1, useV2, testPkg, verAsTimestamp, ver, parsed,
                    mtime, keyVar, produced >>

\* b.Build(); len(verStr) > 0 decides whether an image is made
RunBuild ==
    /\ cmd = "run" /\ pc = "run_build"
    /\ Enter("Build")
    /\ \E ok \in BOOLEAN :
         IF ~ok THEN NewtUsage("build")
         ELSE Goto(IF Len(verStr) > 0 THEN "run_version" ELSE "run_load")
    /\ UNCHANGED << input, useV1, useV2, target, verVar, keyVar, produced >>

\* image.ParseVersion(verStr); len(args) > 2 decides whether keys are read
RunParseVersion ==
    /\ cmd = "run" /\ pc = "run_version"
    /\ Enter("ParseVersion")
    /\ parsed' = Append(parsed, verStr)
    /\ LET r == ParseVersion(verStr)
       IN  /\ ver' = r.ver
           /\ IF ~r.ok THEN NewtUsage("version")
              ELSE Goto(IF Len(args) > 2 THEN "run_keys" ELSE "run_produce")
    /\ UNCHANGED << input, useV1, useV2, target, verAsTimestamp, verStr,
                    mtime, keyVar, produced >>

\* keys, _, err = parseKeyArgs(args[2:]): the key ID is not kept.
RunParseKeyArgs ==
    /\ cmd = "run" /\ pc = "run_keys"
    /\ Enter("parseKeyArgs")
    /\ keyCall' = Append(keyCall, Tail2(args))
    /\ \E readable \in SUBSET KeyTokens :
         LET r == parseKeyArgs(Tail2(args), useV1, readable)
         IN  /\ keyRes' = r
             /\ keys' = r.keys
             /\ unreadable' = Unreadable(r.read, readable)
             /\ IF r.err # None THEN NewtUsage(r.err) ELSE Goto("run_produce")
    /\ UNCHANGED << input, useV1, useV2, target, verVar, produced >>

\* A failed image production does not end the command.
RunProduceIgnoreError ==
    /\ cmd = "run" /\ pc = "run_produce"
    /\ Enter("Produce")
    /\ produced' = Append(produced, ProduceCall(""))
    /\ \E ok \in BOOLEAN :
         /\ pc' = "run_load"
         /\ failed' = IF ok THEN failed ELSE "produce"
         /\ UNCHANGED exitCode
    /\ UNCHANGED << input, useV1, useV2, target, verVar, keyVar >>

\* imgprod.ProduceAllV1 / imgprod.ProduceAll, with "" as overwrite source
RunProduce ==
    /\ cmd = "run" /\ pc = "run_produce"
    /\ Enter("Produce")
    /\ produced' = Append(produced, ProduceCall(""))
    /\ \E ok \in BOOLEAN :
         IF ~ok THEN NewtUsage("produce") ELSE Goto("run_load")
    /\ UNCHANGED << input, useV1, useV2, target, verVar, keyVar >>

\* b.Load(extraJtagCmd, "")
RunLoad ==
    /\ cmd = "run" /\ pc = "run_load"
    /\ Enter("Load")
    /\ \E ok \in BOOLEAN :
         IF ~ok THEN NewtUsage("load") ELSE Goto("run_debug")
    /\ UNCHANGED << input, useV1, useV2, target, verVar, keyVar, produced >>

\* A failed debug session is not reported: the function returns normally.
RunDebugIgnoreError ==
    /\ cmd = "run" /\ pc = "run_debug"
    /\ Enter("Debug")
    /\ \E ok \in BOOLEAN :
         /\ pc' = "exit"
         /\ exitCode' = 0
         /\ failed' = IF ok THEN failed ELSE "debug"
    /\ UNCHANGED << input, useV1, useV2, target, verVar, keyVar, produced >>

\* b.Debug(extraJtagCmd, true, noGDB_flag, ""), then the function ends
RunDebug ==
    /\ cmd = "run" /\ pc = "run_debug"
    /\ Enter("Debug")
    /\ \E ok \in BOOLEAN :
         IF ~ok THEN NewtUsage("debug") ELSE Return
    /\ UNCHANGED << input, useV1, useV2, target, verVar, keyVar, produced >>

Run ==
    \/ RunCheckArgs
    \/ RunValidateFlags
    \/ RunTargetBuilder
    \/ RunSelfTestCreateExe
    \/ RunSelfTestDebug
    \/ RunVersionFromArgs
    \/ RunVersionFromConfig
    \/ RunBuild
    \/ RunParseVersion
    \/ RunParseKeyArgs
    \/ RunProduce
    \/ RunLoad
    \/ RunDebug

-----------------------------------------------------------------------------
(* One invocation of either command *)

Next == CreateImage \/ Run

Spec == Init /\ [][Next]_vars

\* The command runs on one thread and every stage call returns: a step that
\* can be taken is taken.
SpecFair == Spec /\ WF_vars(Next)

-----------------------------------------------------------------------------
(* The timestamp derivation alone, over a wide range of modification times *)

Years   == { 1970, 1999, 2000, 2024, 2255, 2256, 2999, 3000 }
Days    == { 1, 7, 31 }
Minutes == { 0, 5, 59 }
Seconds == { 0, 9, 59 }

TimeInputs ==
    [year : Years, month : 1..12, day : Days,
     hour : 0..23, minute : Minutes, second : Seconds]

\* create-image <target> timestamp, at the os.Stat call after a build.
InitTime ==
    /\ cmd = "create-image"
    /\ args = << << "t", "1" >>, Timestamp >>
    /\ useV1 = FALSE
    /\ useV2 = TRUE
    /\ opts = DefaultOpts
    /\ given = [useV1 |-> FALSE, useV2 |-> FALSE, opts |-> DefaultOpts]
    /\ pc = "ci_stat"
    /\ log = << "args", "flags", "ResolveTarget", "NewTargetBuilder",
                "parseKeyArgs", "Build" >>
    /\ failed = None
    /\ exitCode = -1
    /\ testPkg = FALSE
    /\ settings = NoSettings
    /\ prompted = FALSE
    /\ typed = <<>>
    /\ verAsTimestamp = TRUE
    /\ verStr = <<>>
    /\ ver = NoVersion
    /\ parsed = <<>>
    /\ mtime \in TimeInputs
    /\ keys = <<>>
    /\ keyCall = << <<>> >>
    /\ keyRes = NoKeyRes
    /\ unreadable = {}
    /\ produced = <<>>

\* The derivation of lines 132-136 applied to the time drawn.
DeriveTimestampVersion ==
    /\ pc = "ci_stat"
    /\ Enter("Stat")
    /\ ver' = TimestampVersion(mtime)
    /\ Goto("ci_produce")
    /\ UNCHANGED << input, useV1, useV2, target, verAsTimestamp, verStr,
                    parsed, mtime, keyVar, produced >>

NextTime == DeriveTimestampVersion

SpecTime == InitTime /\ [][NextTime]_vars

\* Every second of one day.
DayTimes ==
    [year : { 2024 }, month : { 3 }, day : { 7 },
     hour : 0..23, minute : 0..59, second : 0..59]

\* As InitTime, with the modification time drawn from one whole day.
InitDay ==
    /\ cmd = "create-image"
    /\ args = << << "t", "1" >>, Timestamp >>
    /\ useV1 = FALSE
    /\ useV2 = TRUE
    /\ opts = DefaultOpts
    /\ given = [useV1 |-> FALSE, useV2 |-> FALSE, opts |-> DefaultOpts]
    /\ pc = "ci_stat"
    /\ log = << "args", "flags", "ResolveTarget", "NewTargetBuilder",
                "parseKeyArgs", "Build" >>
    /\ failed = None
    /\ exitCode = -1
    /\ testPkg = FALSE
    /\ settings = NoSettings
    /\ prompted = FALSE
    /\ typed = <<>>
    /\ verAsTimestamp = TRUE
    /\ verStr = <<>>
    /\ ver = NoVersion
    /\ parsed = <<>>
    /\ mtime \in DayTimes
    /\ keys = <<>>
    /\ keyCall = << <<>> >>
    /\ keyRes = NoKeyRes
    /\ unreadable = {}
    /\ produced = <<>>

SpecDay == InitDay /\ [][NextTime]_vars

-----------------------------------------------------------------------------
(* Properties *)

Has(stage) == \E i \in 1..Len(log) : log[i] = stage

NoRepeat(l) == \A i, j \in 1..Len(l) : l[i] = l[j] => i = j

\* The stage of the log that a failure names.
StageOf(f) ==
    CASE f \in { "keyid", "keyload" } -> "parseKeyArgs"
      [] f = "version" -> "ParseVersion"
      [] f = "build" -> "Build"
      [] f = "stat" -> "Stat"
      [] f = "produce" -> "Produce"
      [] f = "load" -> "Load"
      [] f = "debug" -> "Debug"
      [] f = "resolve" -> "Resolve"
      [] f = "builder" -> "NewTargetBuilder"
      [] f = "selftest_exe" -> "SelfTestCreateExe"
      [] f = "selftest_debug" -> "SelfTestDebug"
      [] f = "target" -> IF cmd = "run"
                         THEN "TargetBuilderForTargetOrUnittest"
                         ELSE "ResolveTarget"
      [] OTHER -> f

\* C1: in both commands every stage is a hard gate with a single attempt.
\* Once a stage has failed, no stage is entered and control does not move
\* again in that invocation; the failed stage is the last one entered; no
\* stage is entered twice; load and debug are never entered in an invocation
\* whose build, key resolution or image production failed.
C1_HardGate ==
    [][ /\ (failed # None => log' = log /\ pc' = pc)
        /\ (failed' # None =>
              /\ pc' = "exit"
              /\ log'[Len(log')] = StageOf(failed')
              /\ failed' \in { "build", "keyid", "keyload", "produce" }
                   => \A i \in 1..Len(log') :
                        log'[i] \notin { "Load", "Debug" })
        /\ NoRepeat(log') ]_vars

\* run: image production failed and load was never entered.
C1_Witness ==
    /\ cmd = "run" /\ pc = "exit" /\ failed = "produce"
    /\ Has("Build") /\ ~Has("Load") /\ ~Has("Debug")

\* The call parseKeyArgs(a) has been made (and has returned keyRes).
KeyArgsCalled == Len(keyCall) = 1
KeyArgs == keyCall[1]

AllDigits(tok) == Len(tok) > 0 /\ \A i \in 1..Len(tok) : tok[i] \in Digits

\* The number a string of decimal digits denotes, by place value.
RECURSIVE DecimalValue(_)
DecimalValue(tok) ==
    IF Len(tok) = 0 THEN 0
    ELSE DecimalValue(SubSeq(tok, 1, Len(tok) - 1)) * 10
         + DigitVal(tok[Len(tok)])

IsKeyId(tok) == AllDigits(tok) /\ DecimalValue(tok) \in 0..255

\* C2 as stated: legacy format, two or more arguments: a second argument
\* that is a decimal integer in 0..255 is the returned key ID, any other is
\* an invalid-key-ID error with no keys.
C2_Original ==
    (KeyArgsCalled /\ useV1 /\ Len(KeyArgs) >= 2) =>
        IF IsKeyId(KeyArgs[2])
        THEN keyRes.keyId = DecimalValue(KeyArgs[2])
        ELSE keyRes.err = "keyid" /\ keyRes.keys = <<>>

\* C2, amended: legacy format, two or more arguments. A second argument that
\* is no decimal integer in 0..255 gives the invalid-key-ID error, no keys,
\* and no key file is read. Otherwise exactly the first argument is read as
\* a key file, whatever follows the second argument; if it loads, the result
\* is that one key with the second argument's value as key ID; if it does
\* not, the result is the load error with no keys and key ID 0.
C2_LegacyKeyId ==
    (KeyArgsCalled /\ useV1 /\ Len(KeyArgs) >= 2) =>
        IF IsKeyId(KeyArgs[2])
        THEN /\ keyRes.read = << << KeyArgs[1] >> >>
             /\ keyRes.err \in { None, "keyload" }
             /\ keyRes.err = None =>
                  /\ keyRes.keyId = DecimalValue(KeyArgs[2])
                  /\ keyRes.keys = << Key(KeyArgs[1]) >>
             /\ keyRes.err = "keyload" =>
                  /\ keyRes.keyId = 0
                  /\ keyRes.keys = <<>>
        ELSE /\ keyRes.err = "keyid"
             /\ keyRes.keys = <<>>
             /\ keyRes.keyId = 0
             /\ keyRes.read = <<>>

\* Legacy format, <key> 255 <extra>: one key, key ID 255.
C2_Witness ==
    /\ KeyArgsCalled /\ useV1 /\ Len(KeyArgs) = 3
    /\ KeyArgs[2] = << "2", "5", "5" >>
    /\ keyRes.err = None /\ keyRes.keyId = 255 /\ Len(keyRes.keys) = 1

\* C3: current format (useV1 not set), two or more arguments: every
\* argument, in order, is read as a key file, none is taken as a key ID, and
\* the returned key ID is 0 whatever the arguments are.
C3_CurrentFormatAllKeys ==
    (KeyArgsCalled /\ ~useV1 /\ Len(KeyArgs) >= 2) =>
        /\ keyRes.read = << KeyArgs >>
        /\ keyRes.keyId = 0
        /\ keyRes.err # "keyid"
        /\ keyRes.err = None =>
             /\ Len(keyRes.keys) = Len(KeyArgs)
             /\ \A i \in 1..Len(KeyArgs) : keyRes.keys[i] = Key(KeyArgs[i])

\* Current format, <key> 256 <key>: three keys, the second read from the
\* file named 256.
C3_Witness ==
    /\ KeyArgsCalled /\ ~useV1 /\ Len(KeyArgs) = 3
    /\ KeyArgs[2] = << "2", "5", "6" >>
    /\ keyRes.err = None /\ Len(keyRes.keys) = 3 /\ keyRes.keyId = 0

\* C4: at most one argument, either format. No argument: no keys, key ID 0,
\* no error, and no key file is read. One argument: exactly that argument is
\* read as the single key file, and the key ID is 0.
C4_ShortLists ==
    (KeyArgsCalled /\ Len(KeyArgs) <= 1) =>
        IF Len(KeyArgs) = 0
        THEN keyRes = [keys |-> <<>>, keyId |-> 0, err |-> None,
                       read |-> <<>>]
        ELSE /\ keyRes.read = << << KeyArgs[1] >> >>
             /\ keyRes.keyId = 0
             /\ keyRes.err # "keyid"
             /\ keyRes.err = None => keyRes.keys = << Key(KeyArgs[1]) >>

\* Legacy format, the single argument 07: it is a key file, not a key ID.
C4_Witness ==
    /\ KeyArgsCalled /\ useV1 /\ KeyArgs = << << "0", "7" >> >>
    /\ keyRes.err = None /\ keyRes.keys = << Key(<< "0", "7" >>) >>
    /\ keyRes.keyId = 0

\* C5: the key ID that parseKeyArgs returned reaches the image producer
\* together with the keys: under the legacy format with arguments
\* <key> <id>, the producer is called with that key ID.
C5_KeyIdPassedThrough ==
    \A i \in 1..Len(produced) :
        (KeyArgsCalled /\ useV1 /\ Len(KeyArgs) >= 2) =>
            /\ produced[i].keys = keyRes.keys
            /\ "keyId" \in DOMAIN produced[i]
            /\ produced[i].keyId = keyRes.keyId

\* C6: in create-image and in run alike, the version token "timestamp"
\* selects timestamp mode: the token is never handed to the dotted-version
\* parser, and an image is produced only with the version derived from the
\* artifact's modification time, read after the build.
C6_TimestampMode ==
    (Len(args) >= 2 /\ args[2] = Timestamp) =>
        /\ \A i \in 1..Len(parsed) : parsed[i] # Timestamp
        /\ failed # "version"
        /\ \A i \in 1..Len(produced) :
             Has("Stat") /\ produced[i].ver = TimestampVersion(mtime)

\* C7: the derived version is the stated function of the modification time,
\* every field within its width, and 2024-03-07 14:05:09 gives
\* (24, 3, 7, 140509).
C7_TimestampVersion ==
    pc = "ci_produce" =>
        /\ ver.Major = ((mtime.year % 1000) % 256)
        /\ ver.Minor = mtime.month
        /\ ver.Rev = mtime.day
        /\ ver.BuildNum
             = mtime.hour * 10000 + mtime.minute * 100 + mtime.second
        /\ ver.Major \in 0..255
        /\ ver.Minor \in 1..12
        /\ ver.Rev \in 1..31
        /\ ver.BuildNum \in 0..235959
        /\ mtime = [year |-> 2024, month |-> 3, day |-> 7,
                    hour |-> 14, minute |-> 5, second |-> 9]
             => ver = [Major |-> 24, Minor |-> 3, Rev |-> 7,
                       BuildNum |-> 140509]

\* A year whose remainder by 1000 does not fit 8 bits: 2999 gives 231.
C7_Witness ==
    /\ pc = "ci_produce"
    /\ mtime = [year |-> 2999, month |-> 12, day |-> 31,
                hour |-> 23, minute |-> 59, second |-> 59]
    /\ ver = [Major |-> 231, Minor |-> 12, Rev |-> 31, BuildNum |-> 235959]

\* The stages of the log that build, make, load and debug the image.
IsPipelineStage(st) ==
    st \in { "Build", "ParseVersion", "Stat", "parseKeyArgs", "Produce",
             "Load", "Debug" }

ArgumentError == failed \in { "args", "flags", "keyid", "version", "target" }

\* A builder has been constructed in this invocation.
BuilderConstructed ==
    \/ Has("NewTargetBuilder") /\ failed # "builder"
    \/ Has("TargetBuilderForTargetOrUnittest") /\ failed # "target"

\* C9: an invocation that ends with an argument error has constructed no
\* builder, built nothing, read no key file and produced no image.
C9_ArgumentErrorsFirst ==
    (pc = "exit" /\ ArgumentError) =>
        /\ ~BuilderConstructed
        /\ ~Has("Build")
        /\ keyRes.read = <<>>
        /\ ~Has("Produce")

C11_BothFlags ==
    (given.useV1 /\ given.useV2) =>
        /\ pc \in { "start", "ci_flags", "run_flags", "exit" }
        /\ pc = "exit" => exitCode = 1 /\ failed \in { "args", "flags" }
        /\ ~Has("ResolveTarget")
        /\ ~Has("TargetBuilderForTargetOrUnittest")
        /\ ~Has("Build")
        /\ ~Has("Produce") /\ produced = <<>>

\* run -1 -2 with a target, a version and a key: ended at flag validation.
C11_Witness ==
    /\ cmd = "run" /\ given.useV1 /\ given.useV2 /\ Len(args) >= 3
    /\ pc = "exit" /\ failed = "flags"
    /\ log = << "args", "flags" >>

\* C12: when a key file fails to load, parseKeyArgs returns the load error
\* with no keys and key ID 0, the invocation ends there, and no image is
\* produced in it.
C12_KeyLoadFailure ==
    unreadable # {} =>
        /\ keyRes.err = "keyload"
        /\ keyRes.keys = <<>> /\ keyRes.keyId = 0
        /\ keys = <<>>
        /\ pc = "exit" /\ failed = "keyload" /\ exitCode = 1
        /\ log[Len(log)] = "parseKeyArgs"
        /\ ~Has("Produce") /\ produced = <<>>

\* Legacy format, <key> 07: the key ID is valid, the key file does not load.
C12_Witness ==
    /\ useV1 /\ KeyArgsCalled /\ Len(KeyArgs) = 2
    /\ KeyArgs[2] = << "0", "7" >>
    /\ unreadable = { KeyArgs[1] }
    /\ keyRes.err = "keyload" /\ pc = "exit"

\* Flag validation has been passed.
FlagsValidated == Has("flags") /\ failed # "flags"

C14_DefaultIsV1 ==
    (cmd = "create-image" /\ ~given.useV1 /\ ~given.useV2) =>
        \A i \in 1..Len(produced) : produced[i].fn = "ProduceAllV1"

\* The last stage of an invocation that runs to its end.
FinalStage ==
    IF cmd = "create-image" THEN "Produce"
    ELSE IF testPkg THEN "SelfTestDebug" ELSE "Debug"

\* C15: every invocation ends, and it ends with status 0 if and only if no
\* stage failed and the final stage of the command was completed (image
\* production for create-image, debug or the self-test debug runner for
\* run); a failed stage ends it with status 1.
C15_Termination ==
    /\ <>(pc = "exit")
    /\ [](pc = "exit" =>
            /\ exitCode \in { 0, 1 }
            /\ exitCode = 0 <=>
                 (failed = None /\ log # <<>>
                  /\ log[Len(log)] = FinalStage)
            /\ failed # None <=> exitCode = 1)
    /\ [](pc # "exit" => exitCode = -1 /\ failed = None)

\* run on a unit-test target ended well after the self-test debug runner.
C15_Witness ==
    /\ cmd = "run" /\ testPkg /\ pc = "exit" /\ exitCode = 0
    /\ log[Len(log)] = "SelfTestDebug"

\* Stage a is entered before stage b.
Before(a, b) ==
    \E i, j \in 1..Len(log) : i < j /\ log[i] = a /\ log[j] = b

\* C16: the modification time of the build artifact is read only in
\* create-image with the token "timestamp", and only after the build of the
\* same invocation has succeeded: never when the build failed, never when a
\* dotted version string was supplied.
C16_StatAfterBuild ==
    /\ Has("Stat") =>
         /\ cmd = "create-image"
         /\ args[2] = Timestamp /\ verAsTimestamp
         /\ parsed = <<>>
         /\ Before("Build", "Stat")
         /\ failed # "build"
    /\ mtime # NoMTime => Has("Stat") /\ ver = TimestampVersion(mtime)
    /\ failed = "build" => ~Has("Stat")
    /\ (Len(args) >= 2 /\ args[2] # Timestamp) => ~Has("Stat")

\* create-image <target> timestamp: built, then the version derived.
C16_Witness ==
    /\ cmd = "create-image" /\ pc = "ci_produce"
    /\ Before("Build", "Stat")
    /\ mtime \in ModTimes /\ ver = TimestampVersion(mtime)

\* C17: run on a target with a unit-test package enters, after the builder
\* is made, exactly the setting injection, the self-test build and the
\* self-test debug runner, in that order, and then ends: no regular build,
\* no version resolution or prompt, no key resolution, no image production,
\* no load and no debug. Without a unit-test package none of the three is
\* entered.
C17_UnitTestBranch ==
    /\ (cmd = "run" /\ testPkg) =>
         /\ \E n \in 0..3 :
              log = << "args", "flags", "TargetBuilderForTargetOrUnittest" >>
                    \o SubSeq(<< "InjectSetting", "SelfTestCreateExe",
                                 "SelfTestDebug" >>, 1, n)
         /\ exitCode = 0 => log[Len(log)] = "SelfTestDebug"
         /\ ~prompted /\ verStr = <<>> /\ parsed = <<>>
         /\ keyCall = <<>> /\ produced = <<>>
    /\ ~testPkg =>
         /\ ~Has("InjectSetting")
         /\ ~Has("SelfTestCreateExe")
         /\ ~Has("SelfTestDebug")

\* A unit-test run that ended well.
C17_Witness ==
    /\ cmd = "run" /\ testPkg /\ exitCode = 0
    /\ log = << "args", "flags", "TargetBuilderForTargetOrUnittest",
                "InjectSetting", "SelfTestCreateExe", "SelfTestDebug" >>

\* C18 as stated: no stage writes a flag variable: each has, at every point
\* of the invocation and at its end, the value the command line gave it.
C18_Original ==
    /\ useV1 = given.useV1
    /\ useV2 = given.useV2
    /\ opts = given.opts

\* C18, amended: no stage writes a flag variable, except that flag
\* validation sets the current-format flag when the legacy flag was not
\* given. Every other flag variable has the value the command line gave it,
\* throughout and at the end.
C18_FlagsFrame ==
    /\ useV1 = given.useV1
    /\ opts = given.opts
    /\ useV2 = (given.useV2 \/ (FlagsValidated /\ ~given.useV1))

\* Neither flag given, every other flag set: at the end only useV2 differs.
C18_Witness ==
    /\ pc = "exit" /\ exitCode = 0
    /\ ~given.useV1 /\ ~given.useV2 /\ useV2
    /\ opts = given.opts /\ opts # DefaultOpts

\* The second after t, within the day.
NextSecond(t) ==
    IF t.second < 59 THEN [t EXCEPT !.second = t.second + 1]
    ELSE IF t.minute < 59
    THEN [t EXCEPT !.minute = t.minute + 1, !.second = 0]
    ELSE [t EXCEPT !.hour = t.hour + 1, !.minute = 0, !.second = 0]

\* Time of day a is later than time of day b.
LaterInDay(a, b) ==
    \/ a.hour > b.hour
    \/ a.hour = b.hour /\ a.minute > b.minute
    \/ a.hour = b.hour /\ a.minute = b.minute /\ a.second > b.second

\* Times of day every derived time is compared with.
CompareTimes ==
    [year : { 2024 }, month : { 3 }, day : { 7 },
     hour : { 0, 1, 9, 10, 23 }, minute : { 0, 1, 59 },
     second : { 0, 1, 59 }]

\* C19: BuildNum encodes the time of day injectively and in order: it never
\* exceeds 235959, the next second always has a strictly larger BuildNum,
\* and against every time of day compared, BuildNum is equal exactly for
\* the same time and larger exactly for the later one.
C19_BuildNumOrder ==
    pc = "ci_produce" =>
        /\ ver.BuildNum \in 0..235959
        /\ LaterInDay([hour |-> 23, minute |-> 59, second |-> 59], mtime)
             => TimestampVersion(NextSecond(mtime)).BuildNum > ver.BuildNum
        /\ \A o \in CompareTimes :
             LET bn == TimestampVersion(o).BuildNum
             IN  /\ bn = ver.BuildNum
                      <=> (o.hour = mtime.hour /\ o.minute = mtime.minute
                           /\ o.second = mtime.second)
                 /\ bn > ver.BuildNum <=> LaterInDay(o, mtime)

\* 09:59:59, the second before the hour gains a digit.
C19_Witness ==
    /\ pc = "ci_produce"
    /\ mtime.hour = 9 /\ mtime.minute = 59 /\ mtime.second = 59
    /\ ver.BuildNum = 95959
    /\ TimestampVersion(NextSecond(mtime)).BuildNum = 100000

====
